---- MODULE Spec2Model ----
(***************************************************************************)
(* Centrifugue native host (src/native-host/centrifugue_host.py): the job  *)
(* supervision subsystem.  Two files (progress file, job file) are shared  *)
(* between short-lived supervisor invocations and detached worker          *)
(* processes.  One step of the model is one file-system or process         *)
(* operation of the code (open-for-write truncates, close fills, unlink,   *)
(* rmtree, kill, Popen); local computation is folded into the operation    *)
(* that follows it.  Supervisor invocations are handled one at a time;     *)
(* workers run concurrently with the supervisor and with each other.       *)
(* Process ids are not reused.                                             *)
(***************************************************************************)
EXTENDS Integers, FiniteSets, Sequences, TLC

\* ---------------------------------------------------------------- bounds
MaxJobs == 2

\* ------------------------------------------------------- program constants
StaleAge == 600
InitialLastPercent == 10
FinalizingPercent == 92

Workers == 1..MaxJobs
None == -1

\* Time is kept relative: a record carries its age, time.time() - timestamp,
\* which a clock tick advances by the staleness threshold or by one second
\* more.  The age is counted for in-flight records, up to StaleAge + 1.
TickSteps == {StaleAge, StaleAge + 1}

\* ------------------------------------------------------------ file values
\* the file does not exist / exists with no content yet (opened 'w', not closed)
NoFile == [exists |-> FALSE, content |-> FALSE]
Empty == [exists |-> TRUE, content |-> FALSE]
\* the file holds one writer's JSON followed by the tail of a longer one
Garbled == [exists |-> TRUE, content |-> FALSE, garbled |-> TRUE]
\* what a writer holds whose file was removed after it had opened it: its
\* json.dump goes to the unlinked file
Orphan == [exists |-> FALSE, content |-> TRUE]
IsRecord(f) == f.exists /\ f.content

\* json.dump and close on a file opened 'w': the buffered text is written at
\* offset 0.  A file another writer has filled since keeps what lies beyond
\* the new text, which json.load then refuses
Dumped(f, rec) ==
  IF rec = Orphan THEN {f}
  ELSE IF IsRecord(f) \/ f = Garbled THEN {rec, Garbled}
  ELSE {rec}

\* os.remove of a file: the writers that have it open lose it
Orphaned(pend, writers) ==
  [w \in DOMAIN pend |-> IF w \in writers THEN Orphan ELSE pend[w]]

InFlight == {"downloading", "processing", "finalizing"}
Terminal == {"complete", "error"}

DemucsPercents == {5, 50}

\* GENRE_MODES (lines 66-80): the stems each genre copies, and the stems its
\* combined track ('beat') is mixed from
Stems == {"vocals", "drums", "bass", "other"}
GENRE_MODES ==
  [full   |-> [stems |-> Stems, combine |-> {}],
   hiphop |-> [stems |-> {"vocals"}, combine |-> {"drums", "bass", "other"}],
   rock   |-> [stems |-> {"vocals", "drums", "bass"}, combine |-> {}]]

\* copied_files with a combined track counted whether or not its mix succeeded
copied_files_any_mix(genre, stem_files, mixed) ==
  Cardinality(GENRE_MODES[genre].stems \cap stem_files)
    + (IF GENRE_MODES[genre].combine \cap stem_files # {} THEN 1 ELSE 0)

\* lines 564-580: len(copied_files) for the stems found in Demucs' output
\* (stem_files) and the value combine_stems returns (mixed): one per stem of
\* the genre that was found, one for the combined track if any of its source
\* stems was found and the mix succeeded
copied_files(genre, stem_files, mixed) ==
  Cardinality(GENRE_MODES[genre].stems \cap stem_files)
    + (IF GENRE_MODES[genre].combine \cap stem_files # {} /\ mixed THEN 1 ELSE 0)

\* the worker's locals of the organizing step
Organized(genre, stem_files, mixed) ==
  [genre |-> genre, stem_files |-> stem_files, mixed |-> mixed,
   copied_files |-> copied_files(genre, stem_files, mixed)]

NotOrganized ==
  [genre |-> "none", stem_files |-> {}, mixed |-> FALSE, copied_files |-> 0]

\* what the organizing step may meet: every stem or none in the full mode;
\* every genre, every set of stems found, the mix succeeding or failing
OrganizeInputs ==
  {[genre |-> "full", stem_files |-> s, mixed |-> FALSE] : s \in {{}, Stems}}
AllOrganizeInputs ==
  [genre : DOMAIN GENRE_MODES, stem_files : SUBSET Stems, mixed : BOOLEAN]

\* write_progress builds the record, timestamp included, before it opens the file
write_progress(stage, msg, percent, jid, action) ==
  [exists |-> TRUE, content |-> TRUE, stage |-> stage, msg |-> msg,
   percent |-> percent, job_id |-> jid, action |-> action, age |-> 0,
   created |-> 0]

\* the record read_progress returns when the file is missing or unparsable
DefaultProgress ==
  [exists |-> FALSE, content |-> FALSE, stage |-> "idle", msg |-> "Ready",
   percent |-> 0, job_id |-> None, action |-> "none", age |-> 0,
   created |-> 0]

\* save_job_state's record; temp_dir is None or the worker whose directory it is
save_job_state(jid, pid, td) ==
  [exists |-> TRUE, content |-> TRUE, job_id |-> jid, pid |-> pid, temp_dir |-> td]

\* read_progress with the age compared as if it were counted in minutes: it
\* never reports stale within the ages of the model, and C7 fails under it
read_progress_in_minutes(f) ==
  IF ~IsRecord(f) THEN DefaultProgress
  ELSE IF f.stage = "processing" /\ f.age > 60 * StaleAge
       THEN [f EXCEPT !.stage = "stale", !.msg = "stalled"]
       ELSE f

\* read_progress: a missing file and an empty (truncated, not yet written) file
\* give the default, as does unparsable content; a processing record older than 600 s is returned as stale
read_progress(f) ==
  IF ~IsRecord(f) THEN DefaultProgress
  ELSE IF f.stage = "processing" /\ f.age > StaleAge
       THEN [f EXCEPT !.stage = "stale", !.msg = "stalled"]
       ELSE f

\* load_job_state: None (here NoFile) for a missing or unparsable file
load_job_state(f) == IF ~IsRecord(f) THEN NoFile ELSE f

Response(action, success, error, jid, stage, percent) ==
  [action |-> action, success |-> success, error |-> error, job_id |-> jid,
   stage |-> stage, percent |-> percent]

\* what a worker has done so far: whether the stage of its last
\* write_progress call was complete or error, whether it has called
\* clear_job_state, and the highest percentage parse_demucs_progress has
\* returned in the running separation (None before the first)
NoTrail == [terminal |-> FALSE, cleared |-> FALSE, parsed |-> None]

\* no response was sent by the step just taken
NoResponse == Response("none", TRUE, "none", None, "none", 0)

\* what a client that keeps no response remembers
Forgetful == Response("forgotten", TRUE, "none", None, "none", 0)

VARIABLES
  last,       \* the response before, as a client that keeps it remembers it
  sec,        \* int(time.time()), counted in the seconds in which jobs start
  progress,   \* ~/.centrifugue_progress.json : NoFile, Empty or a ProgressRec
  job,        \* ~/.centrifugue_job.json      : NoFile, Empty or a JobRec
  ws,         \* ws[w]: the directory mkdtemp gave worker w exists
  wpc,        \* wpc[w]: position of worker process w (its pid is w)
  wjob,       \* wjob[w]: --job-id argument of worker w
  wlast,      \* wlast[w]: last_percent of worker w's progress loop
  wcopied,    \* wcopied[w]: worker w's locals of the organizing step
  wtrail,     \* wtrail[w]: what worker w has done so far (history)
  wpend,      \* wpend[w]: the record worker w is in the middle of writing
  sup,        \* the supervisor invocation being handled
  resp        \* the response the step just taken sent on the control channel

vars == <<last, sec, progress, job, ws, wpc, wjob, wlast, wcopied, wtrail, wpend, sup, resp>>

\* positions of a process that does not run: not spawned yet, never to be
\* spawned, returned from main(), killed from outside, ended by cancel_job
NotRunning == {"unborn", "never", "exited", "killed", "cancelled"}

\* os.kill(pid, 0) succeeds
Alive(w) == w \in Workers /\ wpc[w] \notin NotRunning

\* ------------------------------------------------------------ worker process
\* run_stem_separation_background, one step per file or process operation.

\* the worker's write_progress calls all carry its job id and action
WProgress(w, stage, msg, percent) ==
  write_progress(stage, msg, percent, wjob[w], "download_stems")

\* open(progress_file, 'w') of a write_progress call: the file is truncated
WOpenFile(w, rec, to) ==
  /\ progress' = Empty
  /\ wpend' = [wpend EXCEPT ![w] = rec]
  /\ wpc' = [wpc EXCEPT ![w] = to]

WOpen(w, rec, to) ==
  /\ WOpenFile(w, rec, to)
  /\ wtrail' = [wtrail EXCEPT ![w].terminal = rec.stage \in Terminal, ![w].parsed = None]

\* AfterDump for a worker that returns once 'finalizing' is written
AfterDumpReturningEarly(pc) ==
  CASE pc = "nd_dump" -> "nd_clear"
    [] pc = "dl_dump" -> "download"
    [] pc = "pr_dump" -> "demucs"
    [] pc = "pg_dump" -> "demucs"
    [] pc = "fn_dump" -> "exited"
    [] pc = "er_dump" -> "er_rm"
    [] pc = "ok_dump" -> "exited"

\* where the worker goes once a write_progress call has returned
AfterDump(pc) ==
  CASE pc = "nd_dump" -> "nd_clear"
    [] pc = "dl_dump" -> "download"
    [] pc = "pr_dump" -> "demucs"
    [] pc = "pg_dump" -> "demucs"
    [] pc = "fn_dump" -> "organize"
    [] pc = "er_dump" -> "er_rm"
    [] pc = "ok_dump" -> "exited"

DumpPcs == {"nd_dump", "dl_dump", "pr_dump", "pg_dump", "fn_dump", "er_dump", "ok_dump"}

\* the workers between open and close of the progress file, of the job file
ProgressWriters == {w \in Workers : wpc[w] \in DumpPcs}
JobWriters == {w \in Workers : wpc[w] = "sj_dump"}

\* clear_progress, clear_job_state: os.remove if the file exists
clear_progress ==
  /\ progress' = NoFile
  /\ wpend' = Orphaned(wpend, ProgressWriters)

clear_job_state ==
  /\ job' = NoFile
  /\ wpend' = Orphaned(wpend, JobWriters)

\* json.dump and close of a write_progress call: the file gets the record
WDump(w) ==
  /\ wpc[w] \in DumpPcs
  /\ progress' \in Dumped(progress, wpend[w])
  /\ wpend' = [wpend EXCEPT ![w] = NoFile]
  /\ wpc' = [wpc EXCEPT ![w] = AfterDump(wpc[w])]
  /\ wcopied' = [wcopied EXCEPT ![w] = NotOrganized]
  /\ resp' = NoResponse /\ UNCHANGED <<last, sec, job, ws, wjob, wlast, wtrail, sup>>

\* lines 407-419: the Demucs check; without Demucs the error write begins,
\* with it mkdtemp creates the workspace
WCheck(w) ==
  /\ wpc[w] = "w_check"
  /\ \/ /\ WOpen(w, WProgress(w, "error", "demucs_missing", 0), "nd_dump")
        /\ UNCHANGED ws
     \/ /\ ws' = [ws EXCEPT ![w] = TRUE]
        /\ wpc' = [wpc EXCEPT ![w] = "sj_open"]
        /\ UNCHANGED <<progress, wpend, wtrail>>
  /\ resp' = NoResponse /\ UNCHANGED <<last, sec, job, wjob, wlast, wcopied, sup>>

\* line 424: save_job_state(job_id, os.getpid(), temp_dir, ...), open then dump
WSaveJobOpen(w) ==
  /\ wpc[w] = "sj_open"
  /\ job' = Empty
  /\ wpend' = [wpend EXCEPT ![w] = save_job_state(wjob[w], w, w)]
  /\ wpc' = [wpc EXCEPT ![w] = "sj_dump"]
  /\ resp' = NoResponse /\ UNCHANGED <<last, sec, progress, ws, wjob, wlast, wcopied, wtrail, sup>>

WSaveJobDump(w) ==
  /\ wpc[w] = "sj_dump"
  /\ job' \in Dumped(job, wpend[w])
  /\ wpend' = [wpend EXCEPT ![w] = NoFile]
  /\ wpc' = [wpc EXCEPT ![w] = "dl_open"]
  /\ resp' = NoResponse /\ UNCHANGED <<last, sec, progress, ws, wjob, wlast, wcopied, wtrail, sup>>

\* line 428: write_progress('downloading', ..., percent=5)
WDownloadingOpen(w) ==
  /\ wpc[w] = "dl_open"
  /\ WOpen(w, WProgress(w, "downloading", "downloading", 5), "dl_dump")
  /\ resp' = NoResponse /\ UNCHANGED <<last, sec, job, ws, wjob, wlast, wcopied, sup>>

DownloadOutcomes == {"ok", "failed", "no_audio", "exception"}

\* lines 442-472: yt-dlp has run; the next write_progress call opens the file
WDownload(w, outcome) ==
  /\ wpc[w] = "download"
  /\ IF outcome = "ok"
     THEN WOpen(w, WProgress(w, "processing", "separating", 10), "pr_dump")
     ELSE WOpen(w, WProgress(w, "error", "failed", 0), "er_dump")
  /\ resp' = NoResponse /\ UNCHANGED <<last, sec, job, ws, wjob, wlast, wcopied, sup>>

\* lines 505-506: overall = 10 + int(progress * 0.8)
Overall(p) == 10 + ((p * 8) \div 10)

\* lines 501-509: one line of Demucs' stderr carrying the percentage p
WDemucsLine(w, p) ==
  /\ wpc[w] = "demucs"
  /\ IF p > wlast[w]
     THEN /\ wlast' = [wlast EXCEPT ![w] = p]
          /\ WOpenFile(w, WProgress(w, "processing", "separating", Overall(p)), "pg_dump")
     ELSE UNCHANGED <<progress, wpend, wpc, wlast>>
  /\ wtrail' = [wtrail EXCEPT ![w].terminal = FALSE,
                              ![w].parsed = IF p > @ THEN p ELSE @]
  /\ resp' = NoResponse /\ UNCHANGED <<last, sec, job, ws, wjob, wcopied, sup>>

DemucsOutcomes == {"ok", "separation_failed", "exception"}

\* lines 511-528: the stream closed and Demucs exited
WDemucsEnd(w, outcome) ==
  /\ wpc[w] = "demucs"
  /\ IF outcome = "ok"
     THEN WOpen(w, WProgress(w, "finalizing", "organizing", FinalizingPercent), "fn_dump")
     ELSE WOpen(w, WProgress(w, "error", "failed", 0), "er_dump")
  /\ wlast' = [wlast EXCEPT ![w] = InitialLastPercent]
  /\ resp' = NoResponse /\ UNCHANGED <<last, sec, job, ws, wjob, wcopied, sup>>

OrganizeFailures == {"stems_not_found", "exception"}

\* lines 530-583: the stems are located and copied; on success the workspace
\* is removed (line 583), otherwise the error write begins
WOrganizeWith(w, inputs) ==
  /\ wpc[w] = "organize"
  /\ \/ \E i \in inputs :
          /\ wcopied' = [wcopied EXCEPT ![w] = Organized(i.genre, i.stem_files, i.mixed)]
          /\ ws' = [ws EXCEPT ![w] = FALSE]
          /\ wpc' = [wpc EXCEPT ![w] = "ok_clear"]
          /\ UNCHANGED <<progress, wpend, wtrail>>
     \/ \E f \in OrganizeFailures :
          /\ WOpen(w, WProgress(w, "error", "failed", 0), "er_dump")
          /\ UNCHANGED <<ws, wcopied>>
  /\ resp' = NoResponse /\ UNCHANGED <<last, sec, job, wjob, wlast, sup>>

WOrganize(w) == WOrganizeWith(w, OrganizeInputs)

\* clear_job_state at lines 415, 449, 459, 519, 548, 584, 601
WClearJob(w) ==
  /\ wpc[w] \in {"nd_clear", "er_clear", "ok_clear"}
  /\ clear_job_state
  /\ sup' = IF sup.pc = "st_sj_dump" THEN [sup EXCEPT !.js = Orphan] ELSE sup
  /\ wpc' = [wpc EXCEPT ![w] = IF wpc[w] = "ok_clear" THEN "ok_open" ELSE "exited"]
  /\ wtrail' = [wtrail EXCEPT ![w].cleared = TRUE]
  /\ resp' = NoResponse /\ UNCHANGED <<last, sec, progress, ws, wjob, wlast, wcopied>>

\* shutil.rmtree(temp_dir) on the error paths (lines 448, 458, 518, 547, 600)
WErrorRmtree(w) ==
  /\ wpc[w] = "er_rm"
  /\ ws' = [ws EXCEPT ![w] = FALSE]
  /\ wpc' = [wpc EXCEPT ![w] = "er_clear"]
  /\ resp' = NoResponse /\ UNCHANGED <<last, sec, progress, job, wjob, wlast, wcopied, wtrail, wpend, sup>>

\* lines 586-595: the terminal record of a run whose pipeline succeeded
WFinalOpen(w) ==
  /\ wpc[w] = "ok_open"
  /\ IF wcopied[w].copied_files = 0
     THEN WOpen(w, WProgress(w, "error", "no_output", 0), "ok_dump")
     ELSE WOpen(w, [WProgress(w, "complete", "created", 100)
                      EXCEPT !.created = wcopied[w].copied_files], "ok_dump")
  /\ resp' = NoResponse /\ UNCHANGED <<last, sec, job, ws, wjob, wlast, wcopied, sup>>

\* the process ends without running any more of its code
Killed(w, how) ==
  /\ wpc' = [wpc EXCEPT ![w] = how]
  /\ wpend' = [wpend EXCEPT ![w] = NoFile]
  /\ wlast' = [wlast EXCEPT ![w] = InitialLastPercent]
  /\ wcopied' = [wcopied EXCEPT ![w] = NotOrganized]
  /\ wtrail' = [wtrail EXCEPT ![w] = NoTrail]

\* the worker is killed from outside (a crash, the machine going down)
Crash(w) ==
  /\ Alive(w)
  /\ Killed(w, "killed")
  /\ resp' = NoResponse /\ UNCHANGED <<last, sec, progress, job, ws, wjob, sup>>

WorkerStep(w) ==
  \/ WCheck(w)
  \/ WSaveJobOpen(w)
  \/ WSaveJobDump(w)
  \/ WDownloadingOpen(w)
  \/ \E o \in DownloadOutcomes : WDownload(w, o)
  \/ \E p \in DemucsPercents : WDemucsLine(w, p)
  \/ \E o \in DemucsOutcomes : WDemucsEnd(w, o)
  \/ WOrganize(w)
  \/ WErrorRmtree(w)
  \/ WClearJob(w)
  \/ WFinalOpen(w)
  \/ WDump(w)

\* ------------------------------------------------------- supervisor process
\* main() in host mode: check_stale_job, then the handler of the request.

SupIdle ==
  [pc |-> "idle", js |-> NoFile, jid |-> None, pend |-> NoFile]

\* send_message: the response goes out and the invocation ends
Respond(r) ==
  /\ resp' = r
  /\ last' = IF last = Forgetful THEN Forgetful ELSE r
  /\ sup' = SupIdle

Unborn == {w \in Workers : wpc[w] = "unborn"}

\* a fresh host process starts; check_stale_job lines 718-720: load_job_state
CheckStaleLoad ==
  /\ sup.pc = "idle"
  /\ LET js == load_job_state(job) IN
       sup' = IF js = NoFile
              THEN [sup EXCEPT !.pc = "dispatch"]
              ELSE [sup EXCEPT !.pc = "cs_kill", !.js = js]
  /\ resp' = NoResponse /\ UNCHANGED <<last, sec, progress, job, ws, wpc, wjob, wlast, wcopied, wtrail, wpend>>

\* CheckStaleProbe for a check_stale_job that cleans up whatever os.kill says
CheckStaleProbeUnheeded ==
  /\ sup.pc = "cs_kill"
  /\ sup' = [sup EXCEPT !.pc = "cs_rm"]
  /\ resp' = NoResponse /\ UNCHANGED <<last, sec, progress, job, ws, wpc, wjob, wlast, wcopied, wtrail, wpend>>

\* check_stale_job lines 723-731: os.kill(pid, 0)
CheckStaleProbe ==
  /\ sup.pc = "cs_kill"
  /\ sup' = IF Alive(sup.js.pid)
            THEN [sup EXCEPT !.pc = "dispatch", !.js = NoFile]
            ELSE [sup EXCEPT !.pc = "cs_rm"]
  /\ resp' = NoResponse /\ UNCHANGED <<last, sec, progress, job, ws, wpc, wjob, wlast, wcopied, wtrail, wpend>>

\* temp_dir and os.path.exists(temp_dir): rmtree (lines 693-695, 734-736)
Rmtree(td) ==
  IF td # None /\ ws[td] THEN ws' = [ws EXCEPT ![td] = FALSE] ELSE UNCHANGED ws

\* check_stale_job lines 734-736
CheckStaleRmtree ==
  /\ sup.pc = "cs_rm"
  /\ Rmtree(sup.js.temp_dir)
  /\ sup' = [sup EXCEPT !.pc = "cs_clear", !.js = NoFile]
  /\ resp' = NoResponse /\ UNCHANGED <<last, sec, progress, job, wpc, wjob, wlast, wcopied, wtrail, wpend>>

\* check_stale_job line 738: clear_job_state
CheckStaleClear ==
  /\ sup.pc = "cs_clear"
  /\ clear_job_state
  /\ sup' = [sup EXCEPT !.pc = "cs_read"]
  /\ resp' = NoResponse /\ UNCHANGED <<last, sec, progress, ws, wpc, wjob, wlast, wcopied, wtrail>>

\* check_stale_job lines 741-742: read_progress and the in-flight test
CheckStaleRead ==
  /\ sup.pc = "cs_read"
  /\ LET p == read_progress(progress) IN
       sup' = IF p.stage \in InFlight
              THEN [sup EXCEPT !.pc = "cs_open", !.jid = p.job_id]
              ELSE [sup EXCEPT !.pc = "dispatch"]
  /\ resp' = NoResponse /\ UNCHANGED <<last, sec, progress, job, ws, wpc, wjob, wlast, wcopied, wtrail, wpend>>

\* open(progress_file, 'w') of a supervisor write_progress call
SupOpen(from, to, rec) ==
  /\ sup.pc = from
  /\ progress' = Empty
  /\ sup' = [sup EXCEPT !.pc = to, !.pend = rec]

\* json.dump and close of a supervisor write_progress call
SupDump(from) ==
  /\ sup.pc = from
  /\ progress' \in Dumped(progress, sup.pend)

\* check_stale_job lines 743-745: the 'Previous job was interrupted' record
CheckStaleOpen ==
  /\ SupOpen("cs_open", "cs_dump",
             write_progress("error", "interrupted", 0, sup.jid, "none"))
  /\ resp' = NoResponse /\ UNCHANGED <<last, sec, job, ws, wpc, wjob, wlast, wcopied, wtrail, wpend>>

CheckStaleDump ==
  /\ SupDump("cs_dump")
  /\ sup' = [sup EXCEPT !.pc = "dispatch", !.pend = NoFile, !.jid = None]
  /\ resp' = NoResponse /\ UNCHANGED <<last, sec, job, ws, wpc, wjob, wlast, wcopied, wtrail, wpend>>

\* lines 780-792, 807-813: a download request without a URL
NoUrl(action) ==
  /\ sup.pc = "dispatch"
  /\ Respond(Response(action, FALSE, "no_url", None, "none", 0))
  /\ UNCHANGED <<sec, progress, job, ws, wpc, wjob, wlast, wcopied, wtrail, wpend>>

\* lines 780-786, 827-828
Ping ==
  /\ sup.pc = "dispatch"
  /\ Respond(Response("ping", TRUE, "none", None, "none", 0))
  /\ UNCHANGED <<sec, progress, job, ws, wpc, wjob, wlast, wcopied, wtrail, wpend>>

\* lines 819-821: get_progress returns read_progress() verbatim
GetProgress ==
  /\ sup.pc = "dispatch"
  /\ LET p == read_progress(progress) IN
       Respond(Response("get_progress", TRUE, "none", p.job_id, p.stage, p.percent))
  /\ UNCHANGED <<sec, progress, job, ws, wpc, wjob, wlast, wcopied, wtrail, wpend>>

\* --------------------------------------------------------- start_stems_job

\* lines 807-816, 609-610: a download_stems request with a URL; read_progress
\* and the in-flight test
StartRead ==
  /\ sup.pc = "dispatch"
  /\ LET p == read_progress(progress) IN
       sup' = IF p.stage \in InFlight
              THEN [sup EXCEPT !.pc = "st_load", !.jid = p.job_id]
              ELSE [sup EXCEPT !.pc = "st_spawn"]
  /\ resp' = NoResponse /\ UNCHANGED <<last, sec, progress, job, ws, wpc, wjob, wlast, wcopied, wtrail, wpend>>

\* lines 612-613: load_job_state
StartLoad ==
  /\ sup.pc = "st_load"
  /\ LET js == load_job_state(job) IN
       sup' = IF js = NoFile
              THEN [sup EXCEPT !.pc = "st_spawn", !.jid = None]
              ELSE [sup EXCEPT !.pc = "st_kill", !.js = js]
  /\ resp' = NoResponse /\ UNCHANGED <<last, sec, progress, job, ws, wpc, wjob, wlast, wcopied, wtrail, wpend>>

\* StartProbe for a start_stems_job that rejects whatever os.kill says
StartProbeUnheeded ==
  /\ sup.pc = "st_kill"
  /\ Respond(Response("download_stems", FALSE, "already_running", sup.jid, "none", 0))
  /\ UNCHANGED <<sec, progress, job, ws, wpc, wjob, wlast, wcopied, wtrail, wpend>>

\* lines 614-623: os.kill(pid, 0); a live process rejects the request with the
\* job id of the progress record
StartProbe ==
  /\ sup.pc = "st_kill"
  /\ IF Alive(sup.js.pid)
     THEN Respond(Response("download_stems", FALSE, "already_running", sup.jid, "none", 0))
     ELSE /\ sup' = [sup EXCEPT !.pc = "st_clearj", !.js = NoFile, !.jid = None]
          /\ resp' = NoResponse /\ last' = last
  /\ UNCHANGED <<sec, progress, job, ws, wpc, wjob, wlast, wcopied, wtrail, wpend>>

\* line 625: clear_job_state
StartClearJob ==
  /\ sup.pc = "st_clearj"
  /\ clear_job_state
  /\ sup' = [sup EXCEPT !.pc = "st_clearp"]
  /\ resp' = NoResponse /\ UNCHANGED <<last, sec, progress, ws, wpc, wjob, wlast, wcopied, wtrail>>

\* line 626: clear_progress
StartClearProgress ==
  /\ sup.pc = "st_clearp"
  /\ clear_progress
  /\ sup' = [sup EXCEPT !.pc = "st_spawn"]
  /\ resp' = NoResponse /\ UNCHANGED <<last, sec, job, ws, wpc, wjob, wlast, wcopied, wtrail>>

\* the pid Popen returns: the next process not yet born
NextPid == CHOOSE w \in Unborn : \A v \in Unborn : w <= v

\* line 632: job_id = f"job_{int(time.time())}"
NewJobId(t) == t

\* lines 629-656: the job id is made and the worker is spawned (the model
\* spawns no more processes than it has)
StartSpawn ==
  /\ sup.pc = "st_spawn"
  /\ Unborn # {}
  /\ LET w == NextPid IN
       /\ wpc' = [wpc EXCEPT ![w] = "w_check"]
       /\ wjob' = [wjob EXCEPT ![w] = NewJobId(sec)]
       /\ sup' = [sup EXCEPT !.pc = "st_sj_open", !.jid = NewJobId(sec),
                             !.js = save_job_state(NewJobId(sec), w, None)]
  /\ resp' = NoResponse /\ UNCHANGED <<last, sec, progress, job, ws, wlast, wcopied, wtrail, wpend>>

\* line 659: save_job_state(job_id, worker_process.pid, None, ...), open then dump
StartSaveJobOpen ==
  /\ sup.pc = "st_sj_open"
  /\ job' = Empty
  /\ sup' = [sup EXCEPT !.pc = "st_sj_dump"]
  /\ resp' = NoResponse /\ UNCHANGED <<last, sec, progress, ws, wpc, wjob, wlast, wcopied, wtrail, wpend>>

StartSaveJobDump ==
  /\ sup.pc = "st_sj_dump"
  /\ job' \in Dumped(job, sup.js)
  /\ sup' = [sup EXCEPT !.pc = "st_wp_open", !.js = NoFile]
  /\ resp' = NoResponse /\ UNCHANGED <<last, sec, progress, ws, wpc, wjob, wlast, wcopied, wtrail, wpend>>

\* lines 662-664: write_progress('downloading', 'Starting...', percent=0)
StartProgressOpen ==
  /\ SupOpen("st_wp_open", "st_wp_dump",
             write_progress("downloading", "starting", 0, sup.jid, "download_stems"))
  /\ resp' = NoResponse /\ UNCHANGED <<last, sec, job, ws, wpc, wjob, wlast, wcopied, wtrail, wpend>>

\* lines 664-671: the write completes and the request is accepted
StartProgressDump ==
  /\ SupDump("st_wp_dump")
  /\ Respond(Response("download_stems", TRUE, "none", sup.jid, "none", 0))
  /\ UNCHANGED <<sec, job, ws, wpc, wjob, wlast, wcopied, wtrail, wpend>>

\* -------------------------------------------------------------- cancel_job

\* lines 678-680: read_progress and the in-flight test
CancelRead ==
  /\ sup.pc = "dispatch"
  /\ IF read_progress(progress).stage \in InFlight
     THEN /\ sup' = [sup EXCEPT !.pc = "cj_load"]
          /\ resp' = NoResponse /\ last' = last
     ELSE Respond(Response("cancel_job", FALSE, "no_active_job", None, "none", 0))
  /\ UNCHANGED <<sec, progress, job, ws, wpc, wjob, wlast, wcopied, wtrail, wpend>>

\* lines 683-684: load_job_state
CancelLoad ==
  /\ sup.pc = "cj_load"
  /\ LET js == load_job_state(job) IN
       sup' = IF js = NoFile
              THEN [sup EXCEPT !.pc = "cj_clearp"]
              ELSE [sup EXCEPT !.pc = "cj_kill", !.js = js]
  /\ resp' = NoResponse /\ UNCHANGED <<last, sec, progress, job, ws, wpc, wjob, wlast, wcopied, wtrail, wpend>>

\* lines 685-690: os.kill(pid, SIGTERM); a failure is swallowed.  The worker
\* installs no handler, so a delivered SIGTERM ends it.
CancelKill ==
  /\ sup.pc = "cj_kill"
  /\ IF Alive(sup.js.pid)
     THEN Killed(sup.js.pid, "cancelled")
     ELSE UNCHANGED <<wpc, wpend, wlast, wcopied, wtrail>>
  /\ sup' = [sup EXCEPT !.pc = "cj_rm"]
  /\ resp' = NoResponse /\ UNCHANGED <<last, sec, progress, job, ws, wjob>>

\* lines 693-695: the workspace recorded in the job state is removed
CancelRmtree ==
  /\ sup.pc = "cj_rm"
  /\ Rmtree(sup.js.temp_dir)
  /\ sup' = [sup EXCEPT !.pc = "cj_clearp", !.js = NoFile]
  /\ resp' = NoResponse /\ UNCHANGED <<last, sec, progress, job, wpc, wjob, wlast, wcopied, wtrail, wpend>>

\* line 710: clear_progress (active_process is None in a host process, so
\* lines 698-707 do nothing)
CancelClearProgress ==
  /\ sup.pc = "cj_clearp"
  /\ clear_progress
  /\ sup' = [sup EXCEPT !.pc = "cj_clearj"]
  /\ resp' = NoResponse /\ UNCHANGED <<last, sec, job, ws, wpc, wjob, wlast, wcopied, wtrail>>

\* lines 711-713: clear_job_state and the success response
CancelClearJob ==
  /\ sup.pc = "cj_clearj"
  /\ clear_job_state
  /\ Respond(Response("cancel_job", TRUE, "none", None, "none", 0))
  /\ UNCHANGED <<sec, progress, ws, wpc, wjob, wlast, wcopied, wtrail>>

\* ------------------------------------------------------------ download_mp3

\* lines 795-797: write_progress('downloading', 'Downloading MP3...', percent=10)
Mp3Open ==
  /\ SupOpen("dispatch", "mp_dump",
             write_progress("downloading", "downloading_mp3", 10, None, "download_mp3"))
  /\ resp' = NoResponse /\ UNCHANGED <<last, sec, job, ws, wpc, wjob, wlast, wcopied, wtrail, wpend>>

Mp3Dump ==
  /\ SupDump("mp_dump")
  /\ sup' = [sup EXCEPT !.pc = "mp_run", !.pend = NoFile]
  /\ resp' = NoResponse /\ UNCHANGED <<last, sec, job, ws, wpc, wjob, wlast, wcopied, wtrail, wpend>>

\* lines 798-804: download_mp3 has run; the record of its result is opened
Mp3Result(ok) ==
  /\ SupOpen("mp_run", "mp_done",
             IF ok THEN write_progress("complete", "downloaded", 100, None, "download_mp3")
                   ELSE write_progress("error", "download_failed", 0, None, "download_mp3"))
  /\ resp' = NoResponse /\ UNCHANGED <<last, sec, job, ws, wpc, wjob, wlast, wcopied, wtrail, wpend>>

\* lines 800-805: the record is written and the result is sent
Mp3Done ==
  /\ SupDump("mp_done")
  /\ Respond(Response("download_mp3", sup.pend.stage = "complete",
                      IF sup.pend.stage = "complete" THEN "none" ELSE "download_failed",
                      None, "none", 0))
  /\ UNCHANGED <<sec, job, ws, wpc, wjob, wlast, wcopied, wtrail, wpend>>

\* time.time() - timestamp of a record d seconds later
Aged(f, d) ==
  IF IsRecord(f) /\ f.stage \in InFlight
  THEN [f EXCEPT !.age = IF f.age + d > StaleAge THEN StaleAge + 1 ELSE f.age + d]
  ELSE f

\* the seconds in which a job was started
UsedSeconds == {wjob[w] : w \in {v \in Workers : wpc[v] \notin {"unborn", "never"}}}

\* the clock after a tick: a second in which no job started, and any second
\* once no further job can start, need not be told from the next
NextSecond == IF sec \in UsedSeconds /\ Unborn # {} THEN sec + 1 ELSE sec


\* time passes: every record grows older, and the clock leaves the current second
Tick(d) ==
  /\ sec' = NextSecond
  /\ progress' = Aged(progress, d)
  /\ resp' = NoResponse /\ UNCHANGED <<last, job, ws, wpc, wjob, wlast, wcopied, wtrail, wpend, sup>>

SupervisorStep ==
  \/ CheckStaleLoad
  \/ CheckStaleProbe
  \/ CheckStaleRmtree
  \/ CheckStaleClear
  \/ CheckStaleRead
  \/ CheckStaleOpen
  \/ CheckStaleDump
  \/ \E a \in {"download_mp3", "download_stems"} : NoUrl(a)
  \/ Ping
  \/ GetProgress
  \/ StartRead
  \/ StartLoad
  \/ StartProbe
  \/ StartClearJob
  \/ StartClearProgress
  \/ StartSpawn
  \/ StartSaveJobOpen
  \/ StartSaveJobDump
  \/ StartProgressOpen
  \/ StartProgressDump
  \/ CancelRead
  \/ CancelLoad
  \/ CancelKill
  \/ CancelRmtree
  \/ CancelClearProgress
  \/ CancelClearJob
  \/ Mp3Open
  \/ Mp3Dump
  \/ \E ok \in BOOLEAN : Mp3Result(ok)
  \/ Mp3Done

\* ----------------------------------------------------------- specification
\* The state after installation: no file, no process.  Born(n) lets the
\* first n worker processes be spawned.
Born(n) == [w \in Workers |-> IF w <= n THEN "unborn" ELSE "never"]

InitWith(n, memory) ==
  /\ sec = 0
  /\ last = memory
  /\ progress = NoFile
  /\ job = NoFile
  /\ ws = [w \in Workers |-> FALSE]
  /\ wpc = Born(n)
  /\ wjob = [w \in Workers |-> None]
  /\ wlast = [w \in Workers |-> InitialLastPercent]
  /\ wcopied = [w \in Workers |-> NotOrganized]
  /\ wtrail = [w \in Workers |-> NoTrail]
  /\ wpend = [w \in Workers |-> NoFile]
  /\ sup = SupIdle
  /\ resp = NoResponse

Init == InitWith(MaxJobs, Forgetful)

Next ==
  \/ SupervisorStep
  \/ \E w \in Workers : WorkerStep(w)
  \/ \E w \in Workers : Crash(w)
  \/ \E d \in TickSteps : Tick(d)

Spec == Init /\ [][Next]_vars

\* one job, and a client that remembers the response before
SoloJobs == 1
ClientInit == InitWith(SoloJobs, NoResponse)
ClientSpec == ClientInit /\ [][Next]_vars

\* one job, and a client that keeps no response
PollInit == InitWith(SoloJobs, Forgetful)
PollSpec == PollInit /\ [][Next]_vars

\* one job whose tools all succeed and which nothing cancels or kills, under
\* a client that starts it and polls: the host processes and the worker are
\* scheduled fairly, and Demucs comes to an end
LiveWorkerStep(w) ==
  \/ WCheck(w) /\ wpc'[w] = "sj_open"
  \/ WSaveJobOpen(w)
  \/ WSaveJobDump(w)
  \/ WDownloadingOpen(w)
  \/ WDownload(w, "ok")
  \/ \E p \in DemucsPercents : WDemucsLine(w, p)
  \/ WDemucsEnd(w, "ok")
  \/ WOrganize(w) /\ wpc'[w] = "ok_clear" /\ wcopied'[w].copied_files > 0
  \/ WClearJob(w)
  \/ WFinalOpen(w)
  \/ WDump(w)

LiveSupervisorStep ==
  \/ CheckStaleLoad
  \/ CheckStaleProbe
  \/ CheckStaleRmtree
  \/ CheckStaleClear
  \/ CheckStaleRead
  \/ CheckStaleOpen
  \/ CheckStaleDump
  \/ GetProgress
  \/ StartRead /\ Unborn # {}
  \/ StartSpawn
  \/ StartSaveJobOpen
  \/ StartSaveJobDump
  \/ StartProgressOpen
  \/ StartProgressDump

LiveInit == InitWith(SoloJobs, Forgetful)

LiveNext ==
  \/ LiveSupervisorStep
  \/ \E w \in Workers : LiveWorkerStep(w)
  \/ \E d \in TickSteps : Tick(d)

LiveSpec ==
  /\ LiveInit
  /\ [][LiveNext]_vars
  /\ WF_vars(LiveSupervisorStep)
  /\ \A w \in Workers : WF_vars(LiveWorkerStep(w)) /\ WF_vars(WDemucsEnd(w, "ok"))

\* one job whose organizing step meets every genre, every set of stems found
\* and both outcomes of the mix
OrganizeWorkerStep(w) ==
  \/ WCheck(w)
  \/ WSaveJobOpen(w)
  \/ WSaveJobDump(w)
  \/ WDownloadingOpen(w)
  \/ \E o \in DownloadOutcomes : WDownload(w, o)
  \/ \E p \in DemucsPercents : WDemucsLine(w, p)
  \/ \E o \in DemucsOutcomes : WDemucsEnd(w, o)
  \/ WOrganizeWith(w, AllOrganizeInputs)
  \/ WErrorRmtree(w)
  \/ WClearJob(w)
  \/ WFinalOpen(w)
  \/ WDump(w)

OrganizeInit == InitWith(SoloJobs, Forgetful)

OrganizeNext ==
  \/ SupervisorStep
  \/ \E w \in Workers : OrganizeWorkerStep(w)
  \/ \E w \in Workers : Crash(w)
  \/ \E d \in TickSteps : Tick(d)

OrganizeSpec == OrganizeInit /\ [][OrganizeNext]_vars

\* one job whose tools may fail and whose worker may be killed at any point,
\* under a client that starts it and goes on polling: the host processes and
\* the worker, while it lives, are scheduled fairly
FailureInit == InitWith(SoloJobs, Forgetful)

FailureNext ==
  \/ LiveSupervisorStep
  \/ \E w \in Workers : WorkerStep(w)
  \/ \E w \in Workers : Crash(w)
  \/ \E d \in TickSteps : Tick(d)

FailureSpec ==
  /\ FailureInit
  /\ [][FailureNext]_vars
  /\ WF_vars(LiveSupervisorStep)
  /\ WF_vars(GetProgress)
  /\ \A w \in Workers : WF_vars(WorkerStep(w))

\* ------------------------------------------------------------------ claims

\* C1: under every interleaving of requests and worker steps at most one
\* worker process is alive at any time.
C1_AtMostOneWorkerAlive == Cardinality({w \in Workers : Alive(w)}) <= 1

\* C2: a download_stems request handled while the process the job registry
\* names is alive spawns no worker and leaves both files as they were; the
\* step that spawns a worker is never taken while the registry names a live
\* process.
C2_NoSpawnWhileRegistryAlive ==
  [][(IsRecord(job) /\ Alive(job.pid)) =>
       \A w \in Workers : wpc[w] = "unborn" => wpc'[w] = "unborn"]_vars

\* C3: of two cancel_job requests answered one after the other, the second
\* is answered 'no active job', and when either has been answered neither the
\* progress file nor the job file exists.
C3_CancelIdempotent ==
  [][resp'.action = "cancel_job" =>
       /\ progress' = NoFile
       /\ job' = NoFile
       /\ (last.action = "cancel_job" => resp'.error = "no_active_job")]_vars

\* the order idle < downloading < processing < finalizing < {complete, error};
\* a stale answer shows a processing record
StageRank(stage) ==
  CASE stage = "idle" -> 0
    [] stage = "downloading" -> 1
    [] stage \in {"processing", "stale"} -> 2
    [] stage = "finalizing" -> 3
    [] stage \in Terminal -> 4

\* C4: of two get_progress polls answered one after the other, the first
\* showing the stems job in flight, the second shows a percent and a stage
\* that are not lower than those of the first.
C4_PollsMonotone ==
  [][(/\ last.action = "get_progress"
      /\ last.job_id # None
      /\ last.stage \in InFlight
      /\ resp'.action = "get_progress") =>
       /\ resp'.percent >= last.percent
       /\ StageRank(resp'.stage) >= StageRank(last.stage)]_vars

\* C5: when check_stale_job has found the registered process gone, it returns
\* with the job file removed and, a record in flight having been stored
\* (whatever its age), with the 'interrupted' error record stored in its place.
C5_DeadRegistryReconciled ==
  [][(sup.pc \in {"cs_read", "cs_dump"} /\ sup'.pc = "dispatch") =>
       /\ job' = NoFile
       /\ ~(IsRecord(progress') /\ progress'.stage \in InFlight)
       /\ (sup.pc = "cs_dump" =>
             IsRecord(progress') /\ progress'.stage = "error"
                                 /\ progress'.msg = "interrupted")]_vars

\* C6: once a worker has exited on its own, or a cancel_job that ended it has
\* been answered, the directory the worker made does not exist.
C6_WorkspaceRemoved ==
  \A w \in Workers :
    (wpc[w] = "exited" \/ (wpc[w] = "cancelled" /\ sup.pc = "idle")) => ~ws[w]

\* C7: a get_progress that reads a stored processing record more than 600 s
\* old answers stage stale and leaves the stored record as it was.
C7_StaleProcessingOnRead ==
  [][(/\ resp'.action = "get_progress"
      /\ IsRecord(progress)
      /\ progress.stage = "processing"
      /\ progress.age > StaleAge) =>
       /\ resp'.stage = "stale"
       /\ progress' = progress
       /\ progress'.stage = "processing"]_vars

\* a poll has just answered stale over a stored processing record
C7_Witness ==
  /\ resp.action = "get_progress"
  /\ resp.stage = "stale"
  /\ IsRecord(progress)
  /\ progress.stage = "processing"
  /\ progress.age > StaleAge

\* C8: a get_progress answers stage stale for a stored record of any in-flight
\* stage older than 600 s, and the stored stage for every other record.
C8_StaleAnyInFlightOnRead ==
  [][(resp'.action = "get_progress" /\ IsRecord(progress)) =>
       resp'.stage = IF progress.stage \in InFlight /\ progress.age > StaleAge
                     THEN "stale"
                     ELSE progress.stage]_vars

\* C9: a cancel_job handled over a stored in-flight record is answered with
\* success, and a get_progress answered right after a successful cancel_job
\* shows stage idle.
C9_CancelThenIdle ==
  [][/\ (sup.pc \in {"cj_load", "cj_kill", "cj_rm", "cj_clearp", "cj_clearj"}
           /\ resp' # NoResponse => resp'.success)
     /\ (last.action = "cancel_job" /\ last.success /\ resp'.action = "get_progress"
           => resp'.stage = "idle")]_vars

\* C10: once a download_stems request has been accepted on an idle system,
\* with every tool succeeding and nothing cancelling or killing the worker,
\* a get_progress poll eventually answers stage complete with percent 100.
C10_EventuallyPolledComplete ==
  (resp.action = "download_stems" /\ resp.success)
    ~> (resp.action = "get_progress" /\ resp.stage = "complete" /\ resp.percent = 100)

\* C11: when separation has succeeded, the terminal record the worker writes
\* is complete at 100 with a count equal to the number of the genre's stems
\* that were copied plus the number of combined tracks whose mix succeeded,
\* and it is the error 'no output files' exactly when that number is zero; a
\* failed mix takes only the combined track out of the count.
RequiredCopied(w) ==
  Cardinality({s \in GENRE_MODES[wcopied[w].genre].stems : s \in wcopied[w].stem_files})

CombinedMixed(w) ==
  IF /\ \E s \in GENRE_MODES[wcopied[w].genre].combine : s \in wcopied[w].stem_files
     /\ wcopied[w].mixed
  THEN 1 ELSE 0

C11_TerminalRecordCount ==
  \A w \in Workers :
    wpc[w] = "ok_dump" /\ wpend[w] # Orphan =>
      LET n == RequiredCopied(w) + CombinedMixed(w) IN
        /\ n = 0 => wpend[w].stage = "error" /\ wpend[w].msg = "no_output"
        /\ n > 0 => /\ wpend[w].stage = "complete"
                    /\ wpend[w].percent = 100
                    /\ wpend[w].created = n
        /\ ~wcopied[w].mixed /\ RequiredCopied(w) > 0 =>
              wpend[w].stage = "complete" /\ wpend[w].created = RequiredCopied(w)

\* the hiphop mode with every stem found and the mix failing: the record
\* counts the one vocals file
C11_Witness ==
  \E w \in Workers :
    /\ wpc[w] = "ok_dump"
    /\ wcopied[w].genre = "hiphop"
    /\ wcopied[w].stem_files = Stems
    /\ ~wcopied[w].mixed
    /\ wpend[w] # Orphan
    /\ wpend[w].stage = "complete"
    /\ wpend[w].created = 1

\* the processes spawned so far, and the worker of the job accepted last
Spawned == {w \in Workers : wpc[w] \notin {"unborn", "never"}}
LatestWorker == CHOOSE w \in Spawned : \A v \in Spawned : v <= w

\* C12: once a job has been accepted, no get_progress poll returns a record
\* written for a job before it, whatever the workers still running do.
C12_NoPollOfPriorJob ==
  resp.action = "get_progress" /\ resp.job_id # None /\ Spawned # {} =>
    resp.job_id = wjob[LatestWorker]

\* C13: a reader that runs while a record is being written observes the whole
\* previous record or the whole new one: the file a get_progress poll has just
\* read is never empty and never a mix of two writers' bytes.
C13_ReadersSeeWholeRecords ==
  resp.action = "get_progress" => progress # Empty /\ progress # Garbled

\* the steps of a cancel_job request
CancelStep ==
  \/ CancelRead
  \/ CancelLoad
  \/ CancelKill
  \/ CancelRmtree
  \/ CancelClearProgress
  \/ CancelClearJob

\* C14: while a worker is running no supervisor request other than cancel_job
\* changes the progress file or the job file.
C14_OnlyCancelWritesBesideWorker ==
  [][(\E w \in Workers : Alive(w)) /\ SupervisorStep /\ ~CancelStep
       => progress' = progress /\ job' = job]_vars

\* every spawned worker is gone (it has exited or was killed)
WorkersGone == Spawned # {} /\ \A w \in Workers : ~Alive(w)

\* C15: every failure of a job becomes visible: once its worker is gone, under
\* continued polling the stored record does not stay in downloading,
\* processing, finalizing or stale for ever.
C15_FailureBecomesVisible ==
  WorkersGone ~> read_progress(progress).stage \notin InFlight \cup {"stale"}

C17_NoWorkerAfterCancel ==
  resp.action = "cancel_job" /\ resp.success => \A w \in Workers : ~Alive(w)

\* C18: during separation, every percentage p parsed from the engine's stream
\* that is greater than every percentage parsed before it in that run makes
\* the worker write a processing record with percent 10 + floor(0.8 * p).
C18_EveryNewMaximumWritten ==
  [][\A w \in Workers :
       wtrail'[w].parsed > wtrail[w].parsed =>
         /\ wpc'[w] = "pg_dump"
         /\ wpend'[w].stage = "processing"
         /\ wpend'[w].percent = 10 + ((wtrail'[w].parsed * 8) \div 10)]_vars

\* worker w has completed its save_job_state call (line 424) and has not yet
\* called clear_job_state
Persisted(w) ==
  /\ Alive(w)
  /\ wpc[w] \notin {"w_check", "sj_open", "sj_dump", "nd_dump", "nd_clear"}
  /\ ~wtrail[w].cleared

\* C19: from the moment the worker has persisted its workspace path until the
\* job's record is cleared, the record of that worker in the job file carries
\* the worker's workspace: the supervisor's initial save never puts it back
\* to absent.
C19_WorkspacePathKept ==
  \A w \in Workers :
    Persisted(w) /\ IsRecord(job) /\ job.pid = w => job.temp_dir = w

\* C20: check_stale_job changes nothing when the job file is absent (or
\* cannot be read) or when the process it records is alive: it goes straight
\* on to the request, and neither file, no workspace and no process changes.
C20_ReconcileNoOp ==
  [][/\ sup.pc = "idle" /\ sup'.pc # "idle" /\ load_job_state(job) = NoFile
          => sup'.pc = "dispatch" /\ UNCHANGED <<progress, job, ws, wpc, wpend>>
     /\ sup.pc = "cs_kill" /\ sup'.pc # "cs_kill" /\ Alive(sup.js.pid)
          => sup'.pc = "dispatch" /\ UNCHANGED <<progress, job, ws, wpc, wpend>>]_vars

\* check_stale_job has found the recorded process alive and has returned
C20_Witness ==
  /\ sup.pc = "dispatch"
  /\ IsRecord(job) /\ Alive(job.pid)
  /\ IsRecord(progress) /\ progress.stage \in InFlight
  /\ ws[job.pid]

\* C21: any two accepted download_stems requests are given distinct job ids,
\* also when both are started within the same clock second.
C21_DistinctJobIds ==
  \A v, w \in Spawned : v # w => wjob[v] # wjob[w]

\* C22: whenever the job file records a live worker, a cancel_job request is
\* not refused, whatever whole record the progress file holds (a processing
\* record older than 600 seconds, a record of a download_mp3 request), the
\* worker's own terminal record apart.
C22_LiveJobCanBeCancelled ==
  [][/\ sup.pc = "dispatch"
     /\ IsRecord(job) /\ Alive(job.pid)
     /\ IsRecord(progress)
     /\ ~(progress.action = "download_stems" /\ progress.stage \in Terminal)
     /\ resp'.action = "cancel_job"
     => resp'.success]_vars

\* C23: a worker overwrites or clears only a job record of its own job: no
\* save_job_state or clear_job_state step of a worker changes a job file that
\* holds a record with another job id.
C23_WorkerTouchesOwnRecordOnly ==
  [][\A w \in Workers :
       /\ WSaveJobOpen(w) \/ WSaveJobDump(w) \/ WClearJob(w)
       /\ IsRecord(job) /\ job.job_id # wjob[w]
       => job' = job]_vars

\* C24: when an accepted download_stems request returns and its worker has
\* already exited on its own, the job file holds no record of that job and
\* the stored stage is complete or error.
C24_NothingLeftAfterSelfExit ==
  resp.action = "download_stems" /\ resp.success /\ wpc[LatestWorker] = "exited" =>
    /\ ~(IsRecord(job) /\ job.job_id = wjob[LatestWorker])
    /\ read_progress(progress).stage \in Terminal

\* C25: a download_stems request is rejected as 'already running' only if
\* load_job_state returned a record and the process it records is alive when
\* probed; with no job file (whatever the progress file shows), or with a
\* recorded process that is dead, the request goes on towards the spawn.
C25_RejectedOnlyForLiveJob ==
  [][/\ resp'.action = "download_stems" /\ resp'.error = "already_running"
          => IsRecord(sup.js) /\ Alive(sup.js.pid)
     /\ sup.pc = "st_load" /\ sup'.pc # "st_load" /\ load_job_state(job) = NoFile
          => sup'.pc = "st_spawn" /\ resp' = NoResponse
     /\ sup.pc = "st_kill" /\ sup'.pc # "st_kill" /\ ~Alive(sup.js.pid)
          => sup'.pc = "st_clearj" /\ resp' = NoResponse]_vars

\* a request has just been rejected while the recorded worker is alive
C25_Witness ==
  /\ resp.action = "download_stems" /\ resp.error = "already_running"
  /\ IsRecord(job) /\ Alive(job.pid)
  /\ IsRecord(progress) /\ progress.stage \in InFlight

====
